---- MODULE Spec2Model ----
(***************************************************************************)
(* Model of vllm/entrypoints/openai/tool_parsers/utils.py: the four string *)
(* helpers find_common_prefix, find_common_suffix,                         *)
(* extract_intermediate_diff and find_all_indices, and the streaming       *)
(* caller that feeds successive snapshots to extract_intermediate_diff.    *)
(*                                                                         *)
(* A Python str is a sequence of one-character strings.  A raised          *)
(* IndexError is the value IndexError, which is no string of the alphabet. *)
(***************************************************************************)
EXTENDS Integers, Sequences, FiniteSets, TLC

\* Longest enumerated string.
MaxLen == 3
\* Most snapshots one modelled stream receives.
MaxSteps == 3

\* Characters the enumerated strings are built from: two alphanumeric,
\* two structural.
Chars == {"a", "b", "\"", "}"}

\* Characters for which str.isalnum() is true (those of Chars and of the
\* literal scenarios).
Alnum == {"a", "b", "c", "f", "r", "u", "i", "t", "p", "l", "e"}

isalnum(c) == c \in Alnum

\* All strings over Chars of length at most n.
Strs(n) == UNION {[1..k -> Chars] : k \in 0..n}

\* The docstrings' examples: '{"fruit": "ap"}' and '{"fruit": "apple"}'.
FruitAp == <<"{", "\"", "f", "r", "u", "i", "t", "\"", ":", " ", "\"", "a", "p", "\"", "}">>

FruitApple == <<"{", "\"", "f", "r", "u", "i", "t", "\"", ":", " ", "\"", "a", "p", "p", "l", "e", "\"", "}">>

Abcabc == <<"a", "b", "c", "a", "b", "c">>

Abc == <<"a", "b", "c">>

\* Argument pairs the calls are made with.
Inputs == (Strs(MaxLen) \X Strs(MaxLen)) \cup {<<FruitAp, FruitApple>>, <<FruitApple, FruitAp>>, <<Abcabc, Abc>>}

min(a, b) == IF a <= b THEN a ELSE b

\* The value a call yields when an index is out of range.
IndexError == <<"IndexError">>

\* Python s[i] for any integer i: negative i counts from the end, and an
\* index outside -len(s) .. len(s)-1 raises.
Index(s, i) == IF i >= 0 /\ i < Len(s) THEN s[i + 1] ELSE IF i < 0 /\ -i <= Len(s) THEN s[Len(s) + i + 1] ELSE "IndexError"

\* Python s[::-1].
Reverse(s) == [k \in 1..Len(s) |-> s[Len(s) + 1 - k]]

\* Whether sub occurs in s at zero-based offset i.
OccursAt(s, sub, i) == i >= 0 /\ i + Len(sub) <= Len(s) /\ SubSeq(s, i + 1, i + Len(sub)) = sub

\* Python s.find(sub, start) for start >= 0: the lowest offset >= start at
\* which sub occurs, -1 when there is none (the empty sub occurs at every
\* offset up to len(s)).
Find(s, sub, start) == IF \E i \in start..Len(s) : OccursAt(s, sub, i) THEN CHOOSE i \in start..Len(s) : OccursAt(s, sub, i) /\ \A j \in start..(i - 1) : ~OccursAt(s, sub, j) ELSE -1

\* s.replace(pat, '') without a count: every non-overlapping occurrence goes.
RECURSIVE ReplaceAll(_, _)
ReplaceAll(s, pat) == IF pat = <<>> \/ Find(s, pat, 0) = -1 THEN s ELSE SubSeq(s, 1, Find(s, pat, 0)) \o ReplaceAll(SubSeq(s, Find(s, pat, 0) + Len(pat) + 1, Len(s)), pat)

\* Python s.replace(pat, '', 1): the leftmost occurrence of pat removed; s
\* itself when pat does not occur or is empty.
ReplaceFirst(s, pat) == IF pat = <<>> \/ Find(s, pat, 0) = -1 THEN s ELSE SubSeq(s, 1, Find(s, pat, 0)) \o SubSeq(s, Find(s, pat, 0) + Len(pat) + 1, Len(s))

\* s.replace(suffix, '', 1) without the two reversals.
StripForward(s, suffix) == ReplaceFirst(s, suffix)

\* s[::-1].replace(suffix[::-1], '', 1)[::-1]
StripSuffix(s, suffix) == Reverse(ReplaceFirst(Reverse(s), Reverse(suffix)))

\* The for loop of find_common_prefix from index i on.
RECURSIVE prefix_loop(_, _, _, _, _)
prefix_loop(s1, s2, i, min_length, prefix) ==
    IF i >= min_length THEN prefix
    ELSE IF Index(s1, i) = "IndexError" \/ Index(s2, i) = "IndexError" THEN IndexError
    ELSE IF Index(s1, i) = Index(s2, i) THEN prefix_loop(s1, s2, i + 1, min_length, Append(prefix, Index(s1, i)))
    ELSE prefix

\* The loop without its break: matching goes on after a mismatch.
RECURSIVE prefix_loop_nobreak(_, _, _, _, _)
prefix_loop_nobreak(s1, s2, i, min_length, prefix) ==
    IF i >= min_length THEN prefix
    ELSE IF Index(s1, i) = Index(s2, i) THEN prefix_loop_nobreak(s1, s2, i + 1, min_length, Append(prefix, Index(s1, i)))
    ELSE prefix_loop_nobreak(s1, s2, i + 1, min_length, prefix)

find_common_prefix_nobreak(s1, s2) == prefix_loop_nobreak(s1, s2, 0, min(Len(s1), Len(s2)), <<>>)

\* range(0, min_length - 1): the last common character is lost.
find_common_prefix_short(s1, s2) == prefix_loop(s1, s2, 0, min(Len(s1), Len(s2)) - 1, <<>>)

find_common_prefix(s1, s2) == prefix_loop(s1, s2, 0, min(Len(s1), Len(s2)), <<>>)

\* The for loop of find_common_suffix from offset i (from the end) on.
RECURSIVE suffix_loop(_, _, _, _, _)
suffix_loop(s1, s2, i, min_length, suffix) ==
    IF i > min_length THEN suffix
    ELSE IF Index(s1, -i) = "IndexError" \/ Index(s2, -i) = "IndexError" THEN IndexError
    ELSE IF Index(s1, -i) = Index(s2, -i) /\ ~isalnum(Index(s1, -i)) THEN suffix_loop(s1, s2, i + 1, min_length, <<Index(s1, -i)>> \o suffix)
    ELSE suffix

\* The loop without the isalnum test.
RECURSIVE suffix_loop_anychar(_, _, _, _, _)
suffix_loop_anychar(s1, s2, i, min_length, suffix) ==
    IF i > min_length THEN suffix
    ELSE IF Index(s1, -i) = Index(s2, -i) THEN suffix_loop_anychar(s1, s2, i + 1, min_length, <<Index(s1, -i)>> \o suffix)
    ELSE suffix

find_common_suffix_anychar(s1, s2) == suffix_loop_anychar(s1, s2, 1, min(Len(s1), Len(s2)), <<>>)

\* min_length = len(s1): the second argument's length is not looked at.
find_common_suffix_len1(s1, s2) == suffix_loop(s1, s2, 1, Len(s1), <<>>)

find_common_suffix(s1, s2) == suffix_loop(s1, s2, 1, min(Len(s1), Len(s2)), <<>>)

\* The function's locals when it returns; diff is the returned value.  An
\* IndexError raised by a matcher propagates.
ExtractLocals(curr, old) ==
    LET suffix == find_common_suffix(curr, old)
        old2 == StripSuffix(old, suffix)
        prefix == find_common_prefix(curr, old2)
        diff1 == IF Len(suffix) # 0 THEN StripSuffix(curr, suffix) ELSE curr
        diff2 == IF Len(prefix) # 0 THEN ReplaceFirst(diff1, prefix) ELSE diff1
    IN  IF suffix = IndexError
        THEN [suffix |-> IndexError, old |-> old, prefix |-> <<>>, stripped |-> curr, diff |-> IndexError]
        ELSE IF prefix = IndexError
        THEN [suffix |-> suffix, old |-> old2, prefix |-> IndexError, stripped |-> curr, diff |-> IndexError]
        ELSE [suffix |-> suffix, old |-> old2, prefix |-> prefix, stripped |-> diff1, diff |-> diff2]

\* The two arguments taken in the wrong order.
extract_intermediate_diff_swapped(curr, old) == ExtractLocals(old, curr).diff

extract_intermediate_diff(curr, old) == ExtractLocals(curr, old).diff

\* The search resumes past the whole match: overlapping matches are lost.
find_from_past_match(string, substring, index) == Find(string, substring, IF index = -1 THEN 0 ELSE index + Len(substring))

\* The search resumes at the match itself.
find_from_same(string, substring, index) == Find(string, substring, IF index = -1 THEN 0 ELSE index)

\* string.find(substring, index + 1), one evaluation of the loop's first line.
find_from(string, substring, index) == Find(string, substring, index + 1)

(***************************************************************************)
(* State.  s1, s2: the arguments of the call under way (for                *)
(* extract_intermediate_diff s1 is curr and s2 is old; for                 *)
(* find_all_indices s1 is string and s2 is substring).  op: the function   *)
(* called.  pc: "start" before the call, "loop" inside the while loop of   *)
(* find_all_indices, "done" after the return.  ret: the returned value.    *)
(* loc: the locals of extract_intermediate_diff at its return.  index,     *)
(* indices: the locals of find_all_indices.                                *)
(* previous, delta, sent, calls: one stream of the caller, its stored      *)
(* previous snapshot, the diff last forwarded, all diffs forwarded so far  *)
(* in call order, and the number of calls made.                            *)
(***************************************************************************)
VARIABLES s1, s2, op, pc, ret, loc, index, indices, previous, delta, sent, calls

vars == <<s1, s2, op, pc, ret, loc, index, indices, previous, delta, sent, calls>>

callVars == <<s1, s2, op, pc, ret, loc, index, indices>>

streamVars == <<previous, delta, sent, calls>>

NoLocals == [suffix |-> <<>>, old |-> <<>>, prefix |-> <<>>, stripped |-> <<>>, diff |-> <<>>]

StreamStart == previous = <<>> /\ delta = <<>> /\ sent = <<>> /\ calls = 0

Init ==
    /\ \E in \in Inputs : s1 = in[1] /\ s2 = in[2]
    /\ op = "none" /\ pc = "start" /\ ret = <<>> /\ loc = NoLocals
    /\ index = -1 /\ indices = <<>>
    /\ StreamStart

CallPrefix ==
    /\ pc = "start"
    /\ op' = "find_common_prefix" /\ pc' = "done"
    /\ ret' = find_common_prefix(s1, s2)
    /\ UNCHANGED <<s1, s2, loc, index, indices, streamVars>>

CallSuffix ==
    /\ pc = "start"
    /\ op' = "find_common_suffix" /\ pc' = "done"
    /\ ret' = find_common_suffix(s1, s2)
    /\ UNCHANGED <<s1, s2, loc, index, indices, streamVars>>

CallDiff ==
    /\ pc = "start"
    /\ op' = "extract_intermediate_diff" /\ pc' = "done"
    /\ ret' = extract_intermediate_diff(s1, s2)
    /\ loc' = ExtractLocals(s1, s2)
    /\ UNCHANGED <<s1, s2, index, indices, streamVars>>

\* find_all_indices up to the head of its while loop.
CallFindAll ==
    /\ pc = "start"
    /\ op' = "find_all_indices" /\ pc' = "loop"
    /\ indices' = <<>> /\ index' = -1
    /\ UNCHANGED <<s1, s2, ret, loc, streamVars>>

\* One iteration of the while loop: search on, then break and return, or
\* record the match.
FindIter ==
    /\ pc = "loop"
    /\ index' = find_from(s1, s2, index)
    /\ IF index' = -1
       THEN pc' = "done" /\ ret' = indices /\ UNCHANGED indices
       ELSE pc' = "loop" /\ indices' = Append(indices, index') /\ UNCHANGED ret
    /\ UNCHANGED <<s1, s2, op, loc, streamVars>>

Next == CallPrefix \/ CallSuffix \/ CallDiff \/ CallFindAll \/ FindIter

Spec == Init /\ [][Next]_vars

\* Every call that is under way goes on until it returns.
FairSpec == Spec /\ WF_vars(Next)

(***************************************************************************)
(* One stream of the caller.  Each new snapshot is handed to               *)
(* extract_intermediate_diff together with the stored previous snapshot,   *)
(* the diff is forwarded, and the stored snapshot is replaced.  The caller *)
(* only hands in snapshots that extend the content of the previous one.    *)
(***************************************************************************)
IsPrefix(p, s) == Len(p) <= Len(s) /\ SubSeq(s, 1, Len(p)) = p

IsSuffix(t, s) == Len(t) <= Len(s) /\ SubSeq(s, Len(s) - Len(t) + 1, Len(s)) = t

\* s without its trailing run of non-alphanumeric characters.
RECURSIVE StripTail(_)
StripTail(s) == IF s = <<>> \/ isalnum(s[Len(s)]) THEN s ELSE StripTail(SubSeq(s, 1, Len(s) - 1))

\* The caller invariant: the new snapshot extends the previous content.
Extends(cur, prev) == IsPrefix(StripTail(prev), cur)

InitStream ==
    /\ s1 = <<>> /\ s2 = <<>> /\ op = "none" /\ pc = "start" /\ ret = <<>>
    /\ loc = NoLocals /\ index = -1 /\ indices = <<>>
    /\ StreamStart

Step ==
    /\ calls < MaxSteps
    /\ \E cur \in Strs(MaxLen) :
        /\ Extends(cur, previous)
        /\ delta' = extract_intermediate_diff(cur, previous)
        /\ sent' = sent \o delta'
        /\ previous' = cur
    /\ calls' = calls + 1
    /\ UNCHANGED callVars

NextStream == Step

SpecStream == InitStream /\ [][NextStream]_vars

(***************************************************************************)
(* Properties.                                                             *)
(***************************************************************************)
Returned(f) == pc = "done" /\ op = f

Last(s) == s[Len(s)]

\* previous = p + t and current = p + d + t, with p the first lp characters
\* of previous and t made only of non-alphanumeric characters.
Splits(current, prev, lp) ==
    /\ Len(current) >= Len(prev)
    /\ IsPrefix(SubSeq(prev, 1, lp), current)
    /\ IsSuffix(SubSeq(prev, lp + 1, Len(prev)), current)
    /\ \A k \in (lp + 1)..Len(prev) : ~isalnum(prev[k])

\* The d of the split: current without its first lp characters and without t.
Appended(current, prev, lp) == SubSeq(current, lp + 1, Len(current) - (Len(prev) - lp))

\* t is the whole structural tail the two snapshots share: p and p + d do
\* not end in one same non-alphanumeric character.
WholeTail(current, prev, lp) == lp = 0 \/ isalnum(current[lp]) \/ current[lp] # current[Len(current) - (Len(prev) - lp)]

\* C1 as stated: for every split previous = p + t, current = p + d + t with t
\* made only of non-alphanumeric characters, extract_intermediate_diff(current,
\* previous) returns exactly d.
DiffIsAppendedAnySplit == Returned("extract_intermediate_diff") => \A lp \in 0..Len(s2) : Splits(s1, s2, lp) => ret = Appended(s1, s2, lp)

\* C1 amended: for every split previous = p + t, current = p + d + t in which
\* t is the whole shared structural tail (p is empty, or p ends in an
\* alphanumeric character, or p and p + d end in different characters),
\* extract_intermediate_diff(current, previous) returns exactly d.
DiffIsAppended == Returned("extract_intermediate_diff") => \A lp \in 0..Len(s2) : (Splits(s1, s2, lp) /\ WholeTail(s1, s2, lp)) => ret = Appended(s1, s2, lp)

\* The docstring's example, a split with non-empty p, d and t.
DiffIsAppendedWitness == Returned("extract_intermediate_diff") /\ s1 = FruitApple /\ s2 = FruitAp /\ ret = <<"p", "l", "e">> /\ \E lp \in 1..(Len(s2) - 1) : Splits(s1, s2, lp) /\ WholeTail(s1, s2, lp) /\ ret = Appended(s1, s2, lp)

\* C2: in a stream seeded with the empty previous snapshot whose snapshots
\* each extend the content of the one before, the diffs concatenated in call
\* order equal the last snapshot without its trailing non-alphanumeric
\* characters.
Reconstruction == sent = StripTail(previous)

\* C3: for a string a that ends in a non-alphanumeric character,
\* extract_intermediate_diff(a, a) returns the empty string.
NoChangeNoOutput == (Returned("extract_intermediate_diff") /\ s1 = s2 /\ s1 # <<>> /\ ~isalnum(Last(s1))) => ret = <<>>

NoChangeNoOutputWitness == Returned("extract_intermediate_diff") /\ s1 = s2 /\ Len(s1) >= 2 /\ ~isalnum(Last(s1)) /\ isalnum(s1[1]) /\ ret = <<>>

\* C4: find_common_prefix(a, b) is a prefix of a and of b and the longest one:
\* its length is min(len(a), len(b)) or a and b differ at the index equal to
\* its length; it is empty when the first characters differ and is the
\* shorter string when that string is a prefix of the longer.
PrefixIsLongest ==
    Returned("find_common_prefix") =>
        /\ IsPrefix(ret, s1) /\ IsPrefix(ret, s2)
        /\ Len(ret) = min(Len(s1), Len(s2)) \/ s1[Len(ret) + 1] # s2[Len(ret) + 1]
        /\ (s1 # <<>> /\ s2 # <<>> /\ s1[1] # s2[1]) => ret = <<>>
        /\ IsPrefix(s1, s2) => ret = s1
        /\ IsPrefix(s2, s1) => ret = s2

\* The docstring's example: the call stops at the first mismatch, "}" against "p".
PrefixIsLongestWitness == Returned("find_common_prefix") /\ s1 = FruitAp /\ s2 = FruitApple /\ ret = SubSeq(FruitAp, 1, 13)

\* C5: find_common_suffix(a, b) is a suffix of a and of b, all its characters
\* are non-alphanumeric, and it is the longest such run: its length is
\* min(len(a), len(b)), or at the next position from the end the strings
\* differ or the character is alphanumeric.
SuffixIsLongest ==
    Returned("find_common_suffix") =>
        /\ IsSuffix(ret, s1) /\ IsSuffix(ret, s2)
        /\ \A k \in 1..Len(ret) : ~isalnum(ret[k])
        /\ \/ Len(ret) = min(Len(s1), Len(s2))
           \/ s1[Len(s1) - Len(ret)] # s2[Len(s2) - Len(ret)]
           \/ isalnum(s1[Len(s1) - Len(ret)])

\* A call that stops at a letter both strings share at the tail.
SuffixIsLongestWitness == Returned("find_common_suffix") /\ Len(ret) = 1 /\ Len(s1) = 3 /\ Len(s2) = 2 /\ s1[2] = s2[1] /\ isalnum(s1[2])

\* C6: find_common_prefix(a, b) = find_common_prefix(b, a) and
\* find_common_suffix(a, b) = find_common_suffix(b, a).
MatchersSymmetric ==
    /\ Returned("find_common_prefix") => ret = find_common_prefix(s2, s1)
    /\ Returned("find_common_suffix") => ret = find_common_suffix(s2, s1)

MatchersSymmetricWitness == Returned("find_common_suffix") /\ Len(s1) > Len(s2) /\ ret # <<>> /\ ret # s2

\* The elements of a sequence.
Range(q) == {q[k] : k \in 1..Len(q)}

\* C7: for a non-empty substring, find_all_indices(string, substring) returns
\* in strictly increasing order exactly the offsets at which substring occurs
\* in string, overlapping occurrences included, and the empty list when there
\* is none or the string is empty.
AllIndicesExact ==
    (Returned("find_all_indices") /\ s2 # <<>>) =>
        /\ \A k \in 1..(Len(ret) - 1) : ret[k] < ret[k + 1]
        /\ Range(ret) = {i \in 0..Len(s1) : OccursAt(s1, s2, i)}
        /\ (s1 = <<>> \/ \A i \in 0..Len(s1) : ~OccursAt(s1, s2, i)) => ret = <<>>

\* Overlapping matches: find_all_indices("aaa", "aa") = [0, 1].
AllIndicesExactWitness == Returned("find_all_indices") /\ s1 = <<"a", "a", "a">> /\ s2 = <<"a", "a">> /\ ret = <<0, 1>>

\* No call has raised.
NoIndexError == (pc = "done" /\ op # "find_all_indices") => (ret # IndexError /\ loc.diff # IndexError)

\* Each iteration of the while loop either leaves the loop or moves index up,
\* never past len(string).
LoopProgress == pc = "loop" => (pc' = "done" \/ (index' > index /\ index' <= Len(s1)))

\* C8: every call of the four functions, on any strings, the empty ones and
\* the empty substring included, returns without raising, and the while loop
\* of find_all_indices always reaches its exit.
Totality == []NoIndexError /\ [][LoopProgress]_vars /\ (pc = "loop" ~> pc = "done")

\* The loop has run to its exit on an empty substring.
TotalityWitness == Returned("find_all_indices") /\ s2 = <<>> /\ Len(s1) = 2 /\ ret = <<0, 1, 2>>

\* The cuts of extract_intermediate_diff that hold for all arguments: the
\* reversed replace takes the trailing suffix off old and off curr.
SuffixCutAtEnd ==
    /\ loc.old = SubSeq(s2, 1, Len(s2) - Len(loc.suffix))
    /\ loc.stripped = SubSeq(s1, 1, Len(s1) - Len(loc.suffix))

\* The prefix replace takes the occurrence at offset 0 off curr without its
\* suffix, and the three parts make up curr.
PrefixCutAtStart ==
    /\ ret = SubSeq(loc.stripped, Len(loc.prefix) + 1, Len(loc.stripped))
    /\ s1 = loc.prefix \o ret \o loc.suffix

\* C9 as stated: for all curr and old the reversed replace removes the
\* trailing suffix from old and from curr, the prefix replace removes the
\* occurrence at offset 0, and curr = prefix + r + suffix.
CutsAtBothEnds == Returned("extract_intermediate_diff") => (SuffixCutAtEnd /\ PrefixCutAtStart)

\* C9 amended: the suffix cuts are at the end for all curr and old; the prefix
\* cut is at offset 0 and curr = prefix + r + suffix whenever prefix and
\* suffix do not overlap in curr (len(prefix) + len(suffix) <= len(curr), as
\* is the case whenever len(old) <= len(curr)); when they overlap the prefix
\* replace removes nothing and r is curr without its suffix.
CutsAtBothEndsNoOverlap ==
    Returned("extract_intermediate_diff") =>
        /\ SuffixCutAtEnd
        /\ Len(s2) <= Len(s1) => Len(loc.prefix) + Len(loc.suffix) <= Len(s1)
        /\ Len(loc.prefix) + Len(loc.suffix) <= Len(s1) => PrefixCutAtStart
        /\ Len(loc.prefix) + Len(loc.suffix) > Len(s1) => ret = loc.stripped

\* The prefix text occurs again later in curr and only the leading one goes.
CutsAtBothEndsWitness == Returned("extract_intermediate_diff") /\ loc.prefix # <<>> /\ loc.suffix # <<>> /\ Find(loc.stripped, loc.prefix, 1) # -1 /\ PrefixCutAtStart

====
